---- MODULE Spec2Model ----
(***************************************************************************)
(* A model of LiveDataServer (src/live_data_server.py): the /history       *)
(* handler with its two class-level cache maps, and the /search handler.   *)
(* The HTTP server is http.server.HTTPServer, which serves one request at  *)
(* a time, so each handler is one atomic action.                           *)
(*                                                                         *)
(* Text that the code inspects character by character (the from/to/limit   *)
(* parameters given to int(), the search query, the catalog names) is a    *)
(* sequence of one-character strings.  Text that the code only compares    *)
(* and concatenates (symbol, resolution, the cache key) is a string.       *)
(* Floats that hold prices are integers in thousandths; the clock          *)
(* time.time() is an integer number of seconds.                            *)
(***************************************************************************)
EXTENDS Integers, Sequences, FiniteSets, TLC

VARIABLES
    data_cache,     \* LiveDataServer.data_cache: cache key -> response
    cache_expiry,   \* LiveDataServer.cache_expiry: cache key -> expiry instant
    now,            \* the value time.time() returns
    reqs,           \* number of requests handled so far
    last,           \* the request handled last and the answer it got
    built_for,      \* history: cache key -> the request its entry was built for
    seen,           \* history: request -> the last time it was handled
    fresh           \* history: request -> its last answer built from the provider

vars == <<data_cache, cache_expiry, now, reqs, last, built_for, seen, fresh>>

-----------------------------------------------------------------------------
(* Bounds of the model *)

MaxReqs == 2        \* requests handled in one behaviour
MaxTime == 301      \* the clock stops advancing here
MaxObs == 2         \* rows in one provider answer
MaxLimit == 8       \* |limit| of a /search request

(* Program constants *)

CACHE_TTL == 300            \* current_time + 300
MS_PER_SECOND == 1000       \* timestamp * 1000
DEFAULT_FROM == 0           \* params.get('from', [0])
DEFAULT_LIMIT == 10         \* params.get('limit', [10])
HTTP_OK == 200              \* send_response(200)
HTTP_ERROR == 500           \* send_error(500, str(e))

-----------------------------------------------------------------------------
(* Text helpers *)

Digits == {"0", "1", "2", "3", "4", "5", "6", "7", "8", "9"}

DigitVal(c) ==
    CASE c = "0" -> 0 [] c = "1" -> 1 [] c = "2" -> 2 [] c = "3" -> 3
      [] c = "4" -> 4 [] c = "5" -> 5 [] c = "6" -> 6 [] c = "7" -> 7
      [] c = "8" -> 8 [] c = "9" -> 9

\* The characters of a parameter after an optional sign.
Unsigned(s) == IF s # <<>> /\ s[1] \in {"-", "+"} THEN Tail(s) ELSE s

\* int(s) succeeds: an optional sign and at least one digit.  (int() also
\* accepts surrounding blanks and single underscores between digits; the
\* parameters drawn below hold neither.)
IsInt(s) ==
    /\ Unsigned(s) # <<>>
    /\ \A i \in 1..Len(Unsigned(s)) : Unsigned(s)[i] \in Digits

RECURSIVE Magnitude(_)
Magnitude(d) ==
    IF d = <<>> THEN 0
    ELSE 10 * Magnitude(SubSeq(d, 1, Len(d) - 1)) + DigitVal(d[Len(d)])

\* int(s) for a text that IsInt.
IntOf(s) == IF s[1] = "-" THEN 0 - Magnitude(Unsigned(s)) ELSE Magnitude(Unsigned(s))

\* The characters joined back into one string.
RECURSIVE Join(_)
Join(s) == IF s = <<>> THEN "" ELSE s[1] \o Join(Tail(s))

\* str(e) of the ValueError int() raises.
IntErrorMessage(s) == "invalid literal for int() with base 10: '" \o Join(s) \o "'"

-----------------------------------------------------------------------------
(* /history: the pure parts of handle_history *)

\* cache_key = f"{symbol}_{resolution}_{from_ts}_{to_ts}"
CacheKey(symbol, resolution, from_ts, to_ts) ==
    symbol \o "_" \o resolution \o "_" \o ToString(from_ts) \o "_" \o ToString(to_ts)

\* self.cache_expiry.get(cache_key, 0)
ExpiryGet(expiry, key) == IF key \in DOMAIN expiry THEN expiry[key] ELSE 0

CacheHitInclusive(cache, expiry, key, current_time) ==
    key \in DOMAIN cache /\ current_time <= ExpiryGet(expiry, key)

\* cache_key in self.data_cache and current_time < self.cache_expiry.get(cache_key, 0)
CacheHit(cache, expiry, key, current_time) ==
    key \in DOMAIN cache /\ current_time < ExpiryGet(expiry, key)

PeriodOnly60(resolution) ==
    IF resolution = "1D" THEN "2y"
    ELSE IF resolution = "60" THEN "60d"
    ELSE "7d"

\* period and interval chosen from the resolution
Period(resolution) ==
    IF resolution = "1D" THEN "2y"
    ELSE IF resolution \in {"60", "240"} THEN "60d"
    ELSE "7d"

Interval(resolution) ==
    IF resolution = "1D" THEN "1d"
    ELSE IF resolution \in {"60", "240"} THEN "1h"
    ELSE "5m"

\* round(float(x), 2) of a price in thousandths, in hundredths.  (A tie depends
\* on the binary float; the rows drawn below hold no tie.)
Round2(p) == (p + 5) \div 10

\* A provider row: index timestamp ts (seconds), prices in thousandths as
\* one-element sequences (<<>> is None, which float() rejects), Volume as a
\* one-element sequence (<<>> is NaN or missing).
RowBad(row) == row.Open = <<>> \/ row.High = <<>> \/ row.Low = <<>> \/ row.Close = <<>>

\* The bar built from one row.
Bar(row) ==
    [time   |-> row.ts * MS_PER_SECOND,
     open   |-> Round2(row.Open[1]),
     high   |-> Round2(row.High[1]),
     low    |-> Round2(row.Low[1]),
     close  |-> Round2(row.Close[1]),
     volume |-> IF row.Volume # <<>> THEN row.Volume[1] ELSE 0]

InRangeExclusive(from_ts, timestamp, to_ts) == from_ts <= timestamp /\ timestamp < to_ts

\* if from_ts <= timestamp <= to_ts
InRange(from_ts, timestamp, to_ts) == from_ts <= timestamp /\ timestamp <= to_ts

\* The loop over hist.iterrows(): the bars of the rows in the range, in row order.
RECURSIVE Bars(_, _, _)
Bars(rows, from_ts, to_ts) ==
    IF rows = <<>> THEN <<>>
    ELSE IF InRange(from_ts, rows[1].ts, to_ts)
         THEN <<Bar(rows[1])>> \o Bars(Tail(rows), from_ts, to_ts)
         ELSE Bars(Tail(rows), from_ts, to_ts)

\* One bar put into a list sorted by time, after the bars of the same time.
RECURSIVE Insert(_, _)
Insert(bar, sorted) ==
    IF sorted = <<>> THEN <<bar>>
    ELSE IF bar.time < sorted[1].time THEN <<bar>> \o sorted
    ELSE <<sorted[1]>> \o Insert(bar, Tail(sorted))

SortBarsNone(bars) == bars

\* bars.sort(key=lambda x: x['time']): a stable sort.
RECURSIVE SortBars(_)
SortBars(bars) ==
    IF bars = <<>> THEN <<>>
    ELSE Insert(bars[Len(bars)], SortBars(SubSeq(bars, 1, Len(bars) - 1)))

\* The success envelope.
OkResponse(bars) ==
    [s |-> "ok",
     t |-> [i \in 1..Len(bars) |-> bars[i].time],
     o |-> [i \in 1..Len(bars) |-> bars[i].open],
     h |-> [i \in 1..Len(bars) |-> bars[i].high],
     l |-> [i \in 1..Len(bars) |-> bars[i].low],
     c |-> [i \in 1..Len(bars) |-> bars[i].close],
     v |-> [i \in 1..Len(bars) |-> bars[i].volume]]

NoDataResponse == [s |-> "no_data"]

ErrorResponse(msg) == [s |-> "error", errmsg |-> msg]

\* str(e) of the TypeError float(None) raises.
FloatErrorMessage == "float() argument must be a string or a real number, not 'NoneType'"

-----------------------------------------------------------------------------
(* /history: the handler *)

\* What the provider call ticker.history(period, interval) does: it raises
\* an exception e (raised, with msg = str(e)), or it returns rows.
Raises(msg) == [raised |-> TRUE, msg |-> msg, rows |-> <<>>]

Returns(rows) == [raised |-> FALSE, msg |-> "", rows |-> rows]

AnswerCachingNoData(outcome, from_ts, to_ts) ==
    IF outcome.raised
    THEN [body |-> ErrorResponse(outcome.msg), store |-> FALSE]
    ELSE IF \E i \in 1..Len(outcome.rows) :
                /\ RowBad(outcome.rows[i])
                /\ InRange(from_ts, outcome.rows[i].ts, to_ts)
    THEN [body |-> ErrorResponse(FloatErrorMessage), store |-> FALSE]
    ELSE [body |-> IF outcome.rows = <<>> THEN NoDataResponse
                   ELSE OkResponse(SortBars(Bars(outcome.rows, from_ts, to_ts))),
          store |-> TRUE]

\* The part of handle_history after the provider call: the response body,
\* and whether it is stored in the cache.
Answer(outcome, from_ts, to_ts) ==
    IF outcome.raised
    THEN [body |-> ErrorResponse(outcome.msg), store |-> FALSE]
    ELSE IF outcome.rows = <<>>                               \* hist.empty
    THEN [body |-> NoDataResponse, store |-> FALSE]
    ELSE IF \E i \in 1..Len(outcome.rows) :
                /\ RowBad(outcome.rows[i])
                /\ InRange(from_ts, outcome.rows[i].ts, to_ts)
    THEN [body |-> ErrorResponse(FloatErrorMessage), store |-> FALSE]
    ELSE [body |-> OkResponse(SortBars(Bars(outcome.rows, from_ts, to_ts))),
          store |-> TRUE]

\* d[key] = value on a dict
DictPut(d, key, value) ==
    [k \in DOMAIN d \cup {key} |-> IF k = key THEN value ELSE d[k]]

\* The expiry stored with a response; current_time was read before the
\* provider call.
ExpiryNoTtl(current_time) == current_time

Expiry(current_time) == current_time + CACHE_TTL

Unknown == [known |-> FALSE, time |-> 0, invoked |-> FALSE, body |-> NoDataResponse]

Known(time, invoked, body) ==
    [known |-> TRUE, time |-> time, invoked |-> invoked, body |-> body]

Lookup(history, request) ==
    IF request \in DOMAIN history THEN history[request] ELSE Unknown

NoRequest ==
    [op |-> "none", symbol |-> "", resolution |-> "", from_ts |-> 0, to_ts |-> 0,
     parsed |-> FALSE, key |-> "", time |-> 0, end_time |-> 0, cached |-> FALSE,
     invoked |-> FALSE, raised |-> FALSE, period |-> "", interval |-> "",
     outcome |-> Returns(<<>>), stored |-> FALSE, status |-> 0,
     body |-> NoDataResponse,
     prior |-> Unknown, prior_fresh |-> Unknown]

\* handle_history(params) as do_GET calls it.  symbol_p and resolution_p are
\* the parameters' texts ("" when the parameter is absent), from_p and to_p
\* their characters (<<>> when absent); outcome is what the provider would do
\* and delay the seconds its call takes.  The history variables are left to
\* Record and Forget below.
HandleHistory(symbol_p, resolution_p, from_p, to_p, outcome, delay) ==
    LET symbol     == IF symbol_p = "" THEN "AAPL" ELSE symbol_p
        resolution == IF resolution_p = "" THEN "1D" ELSE resolution_p
        from_ok    == from_p = <<>> \/ IsInt(from_p)
        to_ok      == to_p = <<>> \/ IsInt(to_p)
        from_ts    == IF from_p = <<>> THEN DEFAULT_FROM ELSE IntOf(from_p)
        to_ts      == IF to_p = <<>> THEN now ELSE IntOf(to_p)
    IN
    /\ reqs < MaxReqs
    /\ reqs' = reqs + 1
    /\ IF ~(from_ok /\ to_ok)
       THEN \* int() raises ValueError: the except clause answers
            /\ last' = [NoRequest EXCEPT
                          !.op = "history", !.symbol = symbol,
                          !.resolution = resolution, !.time = now,
                          !.end_time = now, !.raised = TRUE, !.status = HTTP_OK,
                          !.body = ErrorResponse(
                              IntErrorMessage(IF from_ok THEN to_p ELSE from_p))]
            /\ UNCHANGED <<data_cache, cache_expiry, now>>
       ELSE
       LET cache_key    == CacheKey(symbol, resolution, from_ts, to_ts)
           current_time == now
           request      == <<symbol, resolution, from_ts, to_ts>>
           base == [NoRequest EXCEPT
                      !.op = "history", !.symbol = symbol,
                      !.resolution = resolution, !.from_ts = from_ts,
                      !.to_ts = to_ts, !.parsed = TRUE, !.key = cache_key,
                      !.time = current_time, !.status = HTTP_OK,
                      !.prior = Lookup(seen, request),
                      !.prior_fresh = Lookup(fresh, request)]
       IN
       IF CacheHit(data_cache, cache_expiry, cache_key, current_time)
       THEN /\ last' = [base EXCEPT !.cached = TRUE, !.end_time = now,
                                    !.body = data_cache[cache_key]]
            /\ UNCHANGED <<data_cache, cache_expiry, now>>
       ELSE
       LET answer == Answer(outcome, from_ts, to_ts) IN
            /\ now' = now + delay
            /\ last' = [base EXCEPT
                          !.invoked = TRUE, !.end_time = now + delay,
                          !.raised = (answer.body.s = "error"),
                          !.period = Period(resolution),
                          !.interval = Interval(resolution),
                          !.outcome = outcome, !.stored = answer.store,
                          !.body = answer.body]
            /\ IF answer.store
               THEN /\ data_cache' = DictPut(data_cache, cache_key, answer.body)
                    /\ cache_expiry' = DictPut(cache_expiry, cache_key,
                                               Expiry(current_time))
               ELSE UNCHANGED <<data_cache, cache_expiry>>

\* The history variables after a /history request: what the request got,
\* and which request a stored entry was built for.
Record ==
    LET request == <<last'.symbol, last'.resolution, last'.from_ts, last'.to_ts>>
        entry   == Known(last'.time, last'.invoked, last'.body)
    IN  IF ~last'.parsed
        THEN UNCHANGED <<built_for, seen, fresh>>
        ELSE /\ seen' = DictPut(seen, request, entry)
             /\ IF last'.stored
                THEN /\ fresh' = DictPut(fresh, request, entry)
                     /\ built_for' = DictPut(built_for, last'.key, request)
                ELSE UNCHANGED <<built_for, fresh>>

\* The history variables are not kept.
Forget == UNCHANGED <<built_for, seen, fresh>>

\* Time passes between two requests.
Tick(step) ==
    /\ now + step <= MaxTime
    /\ now' = now + step
    /\ UNCHANGED <<data_cache, cache_expiry, reqs, last, built_for, seen, fresh>>

Empty == [k \in {} |-> 0]

Init ==
    /\ data_cache = Empty
    /\ cache_expiry = Empty
    /\ now = 0
    /\ reqs = 0
    /\ last = NoRequest
    /\ built_for = Empty
    /\ seen = Empty
    /\ fresh = Empty

-----------------------------------------------------------------------------
(* /search: handle_search *)

LowerCase == <<"a", "b", "c", "d", "e", "f", "g", "h", "i", "j", "k", "l", "m", "n", "o", "p", "q", "r", "s", "t", "u", "v", "w", "x", "y", "z">>

UpperCase == <<"A", "B", "C", "D", "E", "F", "G", "H", "I", "J", "K", "L", "M", "N", "O", "P", "Q", "R", "S", "T", "U", "V", "W", "X", "Y", "Z">>

\* The upper-case letter of each lower-case letter.
ToUpper ==
    [c \in {LowerCase[k] : k \in 1..Len(LowerCase)} |->
        UpperCase[CHOOSE k \in 1..Len(LowerCase) : LowerCase[k] = c]]

\* c.upper() of one character
Upper(c) == IF c \in DOMAIN ToUpper THEN ToUpper[c] ELSE c

\* s.upper()
UpperText(s) == [i \in 1..Len(s) |-> Upper(s[i])]

\* needle in hay, for two texts
Contains(needle, hay) ==
    \E off \in 0..(Len(hay) - Len(needle)) :
        SubSeq(hay, off + 1, off + Len(needle)) = needle

\* One entry of all_symbols; description repeats full_name.
Symbol(symbol, full_name) ==
    [symbol |-> symbol, full_name |-> full_name, description |-> full_name,
     exchange |-> "NASDAQ", type |-> "stock"]

all_symbols ==
    <<Symbol(<<"A", "A", "P", "L">>,
            <<"A", "p", "p", "l", "e", " ", "I", "n", "c", ".">>),
     Symbol(<<"M", "S", "F", "T">>,
            <<"M", "i", "c", "r", "o", "s", "o", "f", "t", " ", "C", "o", "r", "p", "o", "r", "a", "t", "i", "o", "n">>),
     Symbol(<<"G", "O", "O", "G", "L">>,
            <<"A", "l", "p", "h", "a", "b", "e", "t", " ", "I", "n", "c", ".">>),
     Symbol(<<"A", "M", "Z", "N">>,
            <<"A", "m", "a", "z", "o", "n", ".", "c", "o", "m", " ", "I", "n", "c", ".">>),
     Symbol(<<"T", "S", "L", "A">>,
            <<"T", "e", "s", "l", "a", " ", "I", "n", "c", ".">>),
     Symbol(<<"N", "V", "D", "A">>,
            <<"N", "V", "I", "D", "I", "A", " ", "C", "o", "r", "p", "o", "r", "a", "t", "i", "o", "n">>),
     Symbol(<<"M", "E", "T", "A">>,
            <<"M", "e", "t", "a", " ", "P", "l", "a", "t", "f", "o", "r", "m", "s", " ", "I", "n", "c", ".">>)>>

MatchesNoUpper(query, sym) ==
    Contains(query, sym.symbol) \/ Contains(query, sym.full_name)

\* query in s['symbol'] or query in s['full_name'].upper()
Matches(query, sym) ==
    Contains(query, sym.symbol) \/ Contains(query, UpperText(sym.full_name))

\* filtered: the comprehension when the query is not empty, else all_symbols
Filtered(query) ==
    IF query # <<>>
    THEN LET Keep(sym) == Matches(query, sym) IN SelectSeq(all_symbols, Keep)
    ELSE all_symbols

\* seq[:limit]
SliceTo(seq, limit) ==
    IF limit >= 0
    THEN SubSeq(seq, 1, IF limit < Len(seq) THEN limit ELSE Len(seq))
    ELSE SubSeq(seq, 1, Len(seq) + limit)

\* One entry of results.
Result(sym) ==
    [symbol |-> sym.symbol, full_name |-> sym.full_name,
     description |-> sym.description, exchange |-> sym.exchange,
     ticker |-> sym.symbol, type |-> sym.type]

\* handle_search(params) as do_GET calls it: query_p and limit_p are the
\* parameters' characters (<<>> when absent).  When int() raises, do_GET
\* answers with send_error(500).
HandleSearch(query_p, limit_p) ==
    /\ reqs < MaxReqs
    /\ reqs' = reqs + 1
    /\ LET query == UpperText(query_p) IN
       IF limit_p # <<>> /\ ~IsInt(limit_p)
       THEN last' = [op |-> "search", query |-> query_p, limit |-> 0,
                     status |-> HTTP_ERROR, results |-> <<>>]
       ELSE LET limit    == IF limit_p = <<>> THEN DEFAULT_LIMIT ELSE IntOf(limit_p)
                filtered == SliceTo(Filtered(query), limit)
            IN  last' = [op |-> "search", query |-> query_p, limit |-> limit,
                         status |-> HTTP_OK,
                         results |-> [i \in 1..Len(filtered) |-> Result(filtered[i])]]
    /\ UNCHANGED <<data_cache, cache_expiry, now, built_for, seen, fresh>>

-----------------------------------------------------------------------------
(* Inputs *)

\* A parameter's characters.
T100 == <<"1", "0", "0">>
T150 == <<"1", "5", "0">>
T200 == <<"2", "0", "0">>

Row(ts, open, volume) ==
    [ts |-> ts, Open |-> open, High |-> <<12500>>, Low |-> <<9871>>,
     Close |-> <<10004>>, Volume |-> volume]

\* The provider answers of at most n rows drawn from rows.
RowSeqs(rows, n) == UNION {[1..k -> rows] : k \in 0..n}

-----------------------------------------------------------------------------
(* Spec, the cache: requests that share and do not share keys, a provider *)
(* that answers nothing or rows after some seconds, and a clock that       *)
(* reaches the expiry instant.                                             *)

CacheSymbols == {"BRK", "BRK_B"}

CacheResolutions == {"1D", "B_1D"}

CacheRows == {Row(150, <<10126>>, <<7>>)}

FetchDelays == {0, 1}

TickSteps == {299, 300}

History ==
    /\ \E symbol_p \in CacheSymbols, resolution_p \in CacheResolutions,
          rows \in RowSeqs(CacheRows, MaxObs), delay \in FetchDelays :
           HandleHistory(symbol_p, resolution_p, T100, T200, Returns(rows), delay)
    /\ Record

Clock == \E step \in TickSteps : Tick(step)

Next == History \/ Clock

Spec == Init /\ [][Next]_vars

-----------------------------------------------------------------------------
(* SpecErrors, the failures: a parameter int() rejects, a provider that    *)
(* raises, and rows whose prices float() rejects.                          *)

ErrorFroms == {T100, <<"-", "5">>, <<"x">>}

ErrorTos == {T200, <<"1", "e", "3">>}

ErrorRows == {Row(150, <<10126>>, <<7>>), Row(120, <<>>, <<7>>), Row(250, <<>>, <<7>>)}

ErrorOutcomes ==
    {Raises(""), Raises("timed out")}
        \cup {Returns(rows) : rows \in RowSeqs(ErrorRows, MaxObs)}

HistoryErrors ==
    /\ \E from_p \in ErrorFroms, to_p \in ErrorTos, outcome \in ErrorOutcomes :
           HandleHistory("MSFT", "5", from_p, to_p, outcome, 1)
    /\ Forget

SpecErrors == Init /\ [][HistoryErrors]_vars

-----------------------------------------------------------------------------
(* SpecBars, the bars: provider rows in any order, on and around the ends *)
(* of the requested range, one of them without a volume.                   *)

BarRanges == {<<T100, T150>>, <<T150, T200>>, <<T100, T200>>}

BarRows ==
    {Row(100, <<10126>>, <<7>>), Row(150, <<10234>>, <<>>), Row(200, <<9996>>, <<3>>)}

HistoryBars ==
    /\ \E range \in BarRanges, rows \in RowSeqs(BarRows, MaxObs) :
           HandleHistory("", "", range[1], range[2], Returns(rows), 1)
    /\ Forget

SpecBars == Init /\ [][HistoryBars]_vars

-----------------------------------------------------------------------------
(* SpecWindow, the provider query: every kind of resolution, with other   *)
(* symbols and ranges.                                                     *)

WindowSymbols == {"", "MSFT"}

WindowResolutions == {"", "1D", "60", "240", "5", "W"}

WindowFroms == {<<>>, T100}

WindowTos == {<<>>, T200}

WindowOutcomes == {Returns(<<>>), Returns(<<Row(150, <<10126>>, <<7>>)>>)}

HistoryWindow ==
    /\ \E symbol_p \in WindowSymbols, resolution_p \in WindowResolutions,
          from_p \in WindowFroms, to_p \in WindowTos, outcome \in WindowOutcomes :
           HandleHistory(symbol_p, resolution_p, from_p, to_p, outcome, 1)
    /\ Forget

SpecWindow == Init /\ [][HistoryWindow]_vars

-----------------------------------------------------------------------------
(* SpecSearch, the search: queries in either case that match symbols,     *)
(* names, both or nothing, and limits of either sign.                      *)

DigitChar(n) == CHOOSE c \in Digits : DigitVal(c) = n

RECURSIVE NatText(_)
NatText(n) ==
    IF n < 10 THEN <<DigitChar(n)>>
    ELSE NatText(n \div 10) \o <<DigitChar(n % 10)>>

Queries ==
    {<<>>, <<"A", "A", "P", "L">>, <<"a", "a", "p", "l">>, <<"Z", "Z", "Z", "Z">>,
     <<"a">>, <<"I", "n", "c">>, <<"C", "O", "R", "P">>, <<"t", "e", "s", "l", "a">>,
     <<"m", "e", "t", "a">>, <<".">>}

Limits ==
    {<<>>, <<"t", "e", "n">>}
        \cup {NatText(n) : n \in 0..MaxLimit}
        \cup {<<"-">> \o NatText(n) : n \in 1..MaxLimit}

Search == \E query_p \in Queries, limit_p \in Limits : HandleSearch(query_p, limit_p)

SpecSearch == Init /\ [][Search]_vars

-----------------------------------------------------------------------------
(* The request handled last, and the step that handles a /history request *)

Request == <<last.symbol, last.resolution, last.from_ts, last.to_ts>>

HistoryStep == reqs' = reqs + 1 /\ last'.op = "history"

\* C1 as stated: the same (symbol, resolution, from, to) request issued twice
\* within 300 seconds gets the identical payload both times, and the provider
\* is invoked for at most one of the two.
C1_SameRequestTwice ==
    (last.op = "history" /\ last.prior.known
        /\ last.time - last.prior.time < CACHE_TTL)
    => /\ last.body = last.prior.body
       /\ ~(last.invoked /\ last.prior.invoked)

\* C1 amended: when a request was answered "ok" from the provider, the same
\* request issued again less than 300 seconds after that one began gets the
\* identical payload and does not invoke the provider.
C1_RepeatAfterFreshOk ==
    (last.op = "history" /\ last.prior_fresh.known
        /\ last.time - last.prior_fresh.time < CACHE_TTL)
    => /\ last.body = last.prior_fresh.body
       /\ ~last.invoked

C1_Witness ==
    /\ last.op = "history" /\ last.prior_fresh.known
    /\ last.time - last.prior_fresh.time = CACHE_TTL - 1
    /\ last.cached /\ last.body.s = "ok" /\ Len(last.body.t) > 0

\* C2: a /history request is answered from the cache only if the current time
\* is strictly before the stored expiry of its key's entry; when the current
\* time has reached that expiry the provider is invoked again; and the
\* expired entry is not deleted: a request that stores nothing leaves both
\* maps as they were, and no request removes a key.
C2_LazyExpiry ==
    [][(HistoryStep /\ last'.parsed) =>
        /\ last'.cached =>
            /\ last'.key \in DOMAIN data_cache
            /\ last'.time < cache_expiry[last'.key]
            /\ last'.body = data_cache[last'.key]
        /\ (last'.key \in DOMAIN cache_expiry
               /\ last'.time >= cache_expiry[last'.key])
            => /\ last'.invoked
               /\ last'.key \in DOMAIN data_cache'
        /\ ~last'.stored =>
               data_cache' = data_cache /\ cache_expiry' = cache_expiry
        /\ DOMAIN data_cache \subseteq DOMAIN data_cache']_vars

C2_Witness ==
    /\ last.op = "history" /\ last.invoked /\ ~last.stored
    /\ last.key \in DOMAIN data_cache
    /\ last.time = cache_expiry[last.key]

\* C3: when the provider returns zero rows, the answer is exactly
\* {"s": "no_data"} and data_cache and cache_expiry are left as they were.
C3_NoDataNotCached ==
    [][(HistoryStep /\ last'.invoked /\ last'.outcome = Returns(<<>>)) =>
        /\ last'.body = [s |-> "no_data"]
        /\ last'.status = HTTP_OK
        /\ data_cache' = data_cache
        /\ cache_expiry' = cache_expiry]_vars

C3_Witness ==
    /\ last.op = "history" /\ last.invoked /\ last.outcome = Returns(<<>>)
    /\ last.body = [s |-> "no_data"]
    /\ data_cache # Empty

\* C9 as stated: a request is answered from the cache only with a response
\* that was built for the same (symbol, resolution, from, to).
C9_EntryOfSameRequest ==
    (last.op = "history" /\ last.cached) => built_for[last.key] = Request

\* C10 as stated: a stored entry's expiry is the time at which it is stored
\* plus 300 seconds.
C10_ExpiryFromStoreTime ==
    (last.op = "history" /\ last.stored)
    => cache_expiry[last.key] = last.end_time + CACHE_TTL

\* C4 as stated: an exception raised while a /history request is handled
\* gives HTTP 200 with the body {"s": "error", "errmsg": m}, m not empty, and
\* nothing is stored.
C4_ExceptionAnswered ==
    (last.op = "history" /\ last.raised)
    => /\ last.status = HTTP_OK
       /\ last.body.s = "error"
       /\ last.body.errmsg # ""
       /\ ~last.stored

\* C5: in every "ok" answer, fresh or cached, t, o, h, l, c and v have the
\* same length and t is non-decreasing.
C5_ParallelAndSorted ==
    (last.op = "history" /\ last.body.s = "ok")
    => /\ \A a \in {last.body.o, last.body.h, last.body.l, last.body.c, last.body.v} :
              Len(a) = Len(last.body.t)
       /\ \A i, j \in 1..Len(last.body.t) : i < j => last.body.t[i] <= last.body.t[j]

C5_Witness ==
    /\ last.op = "history" /\ last.invoked /\ last.body.s = "ok"
    /\ Len(last.outcome.rows) = 2
    /\ last.outcome.rows[1].ts > last.outcome.rows[2].ts
    /\ Len(last.body.t) = 2

\* The provider rows of the last request whose timestamp is ts.
RowsAt(ts) == {i \in 1..Len(last.outcome.rows) : last.outcome.rows[i].ts = ts}

\* The returned bars whose time is ts seconds.
BarsAt(ts) == {i \in 1..Len(last.body.t) : last.body.t[i] = ts * MS_PER_SECOND}

\* C6: every bar of an "ok" answer, fresh or cached, has a timestamp t / 1000
\* with from_ts <= t / 1000 <= to_ts, and a fresh answer holds one bar for
\* every provider row inside the range.
C6_BarsInRange ==
    (last.op = "history" /\ last.body.s = "ok")
    => /\ \A i \in 1..Len(last.body.t) :
              /\ last.from_ts <= last.body.t[i] \div MS_PER_SECOND
              /\ last.body.t[i] \div MS_PER_SECOND <= last.to_ts
       /\ last.invoked =>
              \A ts \in last.from_ts..last.to_ts :
                  Cardinality(BarsAt(ts)) = Cardinality(RowsAt(ts))

C6_Witness ==
    /\ last.op = "history" /\ last.invoked /\ last.body.s = "ok"
    /\ RowsAt(last.to_ts) # {}
    /\ \E i \in 1..Len(last.outcome.rows) : last.outcome.rows[i].ts > last.to_ts
    /\ Len(last.body.t) = 1

\* C7: the provider is queried with a window and an interval fixed by the
\* resolution alone: "1D" gives 2 years daily, "60" and "240" give 60 days
\* hourly, anything else gives 7 days in 5-minute steps.
C7_WindowFromResolution ==
    (last.op = "history" /\ last.invoked)
    => /\ last.resolution = "1D"
              => last.period = "2y" /\ last.interval = "1d"
       /\ last.resolution \in {"60", "240"}
              => last.period = "60d" /\ last.interval = "1h"
       /\ last.resolution \notin {"1D", "60", "240"}
              => last.period = "7d" /\ last.interval = "5m"

C7_Witness ==
    /\ last.op = "history" /\ last.invoked
    /\ last.resolution = "240" /\ last.period = "60d"
    /\ last.symbol = "MSFT" /\ last.from_ts = 100

\* Two characters that are equal up to the case of a letter.
SameLetter(a, b) ==
    a = b \/ \E k \in 1..Len(LowerCase) : {a, b} = {LowerCase[k], UpperCase[k]}

\* The query occurs in the text, whatever the case of the letters.
Occurs(query, text) ==
    \E off \in 0..(Len(text) - Len(query)) :
        \A i \in 1..Len(query) : SameLetter(query[i], text[off + i])

\* The catalog entries a query selects, in catalog order.
Selected(query) ==
    LET Hit(sym) == query = <<>> \/ Occurs(query, sym.symbol)
                        \/ Occurs(query, sym.full_name)
    IN  SelectSeq(all_symbols, Hit)

\* The symbols of the results are the symbols of the first n selected entries.
IsPrefix(results, selected) ==
    /\ Len(results) <= Len(selected)
    /\ \A i \in 1..Len(results) :
          /\ results[i].symbol = selected[i].symbol
          /\ results[i].full_name = selected[i].full_name
          /\ results[i].ticker = selected[i].symbol

\* C8 as stated: for every integer limit the results are a prefix of the
\* selected entries and hold at most limit entries.
C8_AtMostLimit ==
    (last.op = "search" /\ last.status = HTTP_OK)
    => /\ IsPrefix(last.results, Selected(last.query))
       /\ Len(last.results) <= last.limit

\* C8 amended: the results are a prefix of the selected entries; for a limit
\* >= 0 they are the first limit of them (all when there are fewer), and
\* for a limit < 0 they are all but the last -limit of them.
C8_SearchPrefix ==
    (last.op = "search" /\ last.status = HTTP_OK)
    => LET n == Len(Selected(last.query)) IN
       /\ IsPrefix(last.results, Selected(last.query))
       /\ last.limit >= 0 =>
              Len(last.results) = IF last.limit < n THEN last.limit ELSE n
       /\ last.limit < 0 =>
              Len(last.results) = IF n + last.limit > 0 THEN n + last.limit ELSE 0

C8_Witness ==
    /\ last.op = "search" /\ last.status = HTTP_OK
    /\ last.query = <<"I", "n", "c">> /\ last.limit = 3
    /\ Len(last.results) = 3 /\ Len(Selected(last.query)) = 5
    /\ last.results[3].symbol = <<"A", "M", "Z", "N">>

====
